---------------------------- MODULE Spec2Model ----------------------------
(***************************************************************************)
(* Model of src/billiard_triangle.py: the Ball physics (update,            *)
(* move_towards, collide_with) and the round logic of BilliardTriangleGame *)
(* (reset_game, all_stopped, update_balls, calculate_triangle_area and the  *)
(* event handlers and per-frame update of run).                             *)
(*                                                                         *)
(* Arithmetic.  The program computes in double precision.  The model       *)
(* computes in fixed point: a length or a velocity component is an integer *)
(* number of 1/UNIT pixels, and every quotient is rounded toward zero      *)
(* (TruncDiv), every square root to the nearest unit, as math.sqrt rounds  *)
(* to the nearest double (Sqrt).  Sums and differences are exact.          *)
(* Rounding toward zero keeps the one property of the double-precision     *)
(* products the physics relies on: multiplying a nonzero velocity          *)
(* component by FRICTION < 1 makes it strictly smaller.                    *)
(***************************************************************************)
EXTENDS Integers, Sequences, FiniteSets, TLC

(* ------------------------- program constants -------------------------- *)
SCREEN_WIDTH == 800
BOARD_HEIGHT == 600
BALL_RADIUS == 15
INITIAL_SPEED == 22
\* FRICTION = 0.99, in hundredths
FRICTION_PCT == 99
\* MIN_VELOCITY = 0.1 = 1 / MIN_VELOCITY_INV
MIN_VELOCITY_INV == 10
\* RESTITUTION = 0.6 and WALL_RESTITUTION = 0.8, in tenths
RESTITUTION_TENTHS == 6
WALL_RESTITUTION_TENTHS == 8
\* self.balls_left = 2
BALLS_PER_ROUND == 2
\* event.button == 1
LEFT_BUTTON == 1

(* --------------------------- model bounds ----------------------------- *)
\* resolution of the fixed-point arithmetic: units per pixel
UNIT == 20

W == SCREEN_WIDTH * UNIT
H == BOARD_HEIGHT * UNIT
R == BALL_RADIUS * UNIT
SPEED == INITIAL_SPEED * UNIT

(* ---------------------------- arithmetic ------------------------------ *)
Abs(a) == IF a >= 0 THEN a ELSE -a

\* a / b rounded toward zero (b > 0)
TruncDiv(a, b) == IF a >= 0 THEN a \div b ELSE -((-a) \div b)

\* the largest r in lo..hi with r * r <= n, by bisection
SqrtIter[n \in Nat, lo \in Nat, hi \in Nat] ==
    IF lo >= hi THEN lo
    ELSE LET mid == (lo + hi + 1) \div 2
         IN  IF mid * mid <= n THEN SqrtIter[n, mid, hi]
                               ELSE SqrtIter[n, lo, mid - 1]

\* math.sqrt, rounded to the nearest integer, for 0 <= n < 2^31
Sqrt(n) ==
    LET r == SqrtIter[n, 0, 46340]
    IN  IF n - r * r > r THEN r + 1 ELSE r

\* math.sqrt(dx**2 + dy**2)
Dist(dx, dy) == Sqrt(dx * dx + dy * dy)

\* math.sqrt(dx**2 + dy**2) < BALL_RADIUS * 2
Closer2R(dx, dy) ==
    /\ Abs(dx) < 2 * R
    /\ Abs(dy) < 2 * R
    /\ dx * dx + dy * dy < (2 * R) * (2 * R)

(* ------------------------------- Ball ---------------------------------- *)
\* Ball.__init__ (color and is_target only select the drawing colour)
Ball(x, y) == [x |-> x, y |-> y, vx |-> 0, vy |-> 0, moving |-> FALSE]

\* -v * WALL_RESTITUTION
WallBounce(v) == TruncDiv((-v) * WALL_RESTITUTION_TENTHS, 10)

\* v *= FRICTION
Friction(v) == TruncDiv(v * FRICTION_PCT, 100)

\* fault: the speed is compared with half of MIN_VELOCITY
BelowMinVelocity_Half(vx, vy) ==
    4 * MIN_VELOCITY_INV * MIN_VELOCITY_INV * (vx * vx + vy * vy) < UNIT * UNIT
\* math.sqrt(vx**2 + vy**2) < MIN_VELOCITY
BelowMinVelocity(vx, vy) ==
    MIN_VELOCITY_INV * MIN_VELOCITY_INV * (vx * vx + vy * vy) < UNIT * UNIT

\* the x and vx of a moving ball after the wall test on one axis
WallAxis(p, v, limit) ==
    IF p - R < 0 THEN [p |-> R, v |-> WallBounce(v)]
    ELSE IF p + R > limit THEN [p |-> limit - R, v |-> WallBounce(v)]
    ELSE [p |-> p, v |-> v]

\* fault: a ball that falls below MIN_VELOCITY keeps its moving flag
update_KeepsMoving(b) ==
    IF ~b.moving THEN b
    ELSE LET ax == WallAxis(b.x + b.vx, b.vx, W)
             ay == WallAxis(b.y + b.vy, b.vy, H)
             fx == Friction(ax.v)
             fy == Friction(ay.v)
         IN  IF BelowMinVelocity(fx, fy)
             THEN [x |-> ax.p, y |-> ay.p, vx |-> 0, vy |-> 0, moving |-> TRUE]
             ELSE [x |-> ax.p, y |-> ay.p, vx |-> fx, vy |-> fy, moving |-> TRUE]
\* Ball.update
update(b) ==
    IF ~b.moving THEN b
    ELSE LET ax == WallAxis(b.x + b.vx, b.vx, W)
             ay == WallAxis(b.y + b.vy, b.vy, H)
             fx == Friction(ax.v)
             fy == Friction(ay.v)
         IN  IF BelowMinVelocity(fx, fy)
             THEN [x |-> ax.p, y |-> ay.p, vx |-> 0, vy |-> 0, moving |-> FALSE]
             ELSE [x |-> ax.p, y |-> ay.p, vx |-> fx, vy |-> fy, moving |-> TRUE]

\* Ball.move_towards(target_x, target_y) with speed = INITIAL_SPEED
move_towards(b, target_x, target_y) ==
    LET dx == target_x - b.x
        dy == target_y - b.y
        distance == Dist(dx, dy)
    IN  IF distance > 0
        THEN [b EXCEPT !.vx = TruncDiv(dx * SPEED, distance),
                       !.vy = TruncDiv(dy * SPEED, distance),
                       !.moving = TRUE]
        ELSE b

\* impulse = (1 + restitution) * dot_product, restitution in tenths
Impulse(dot_product, restitution) ==
    TruncDiv((10 + restitution) * dot_product, 10)

\* fault: the impulse is added to both balls
Recoil_SameSign(v, i) == v + i
\* other_ball.vx -= impulse * nx
Recoil(v, i) == v - i

\* Ball.collide_with at a given restitution: the two balls after the call
\* and the value returned
Collide(self, other, restitution) ==
    LET dx == other.x - self.x
        dy == other.y - self.y
    IN  IF ~Closer2R(dx, dy)
        THEN [self |-> self, other |-> other, hit |-> FALSE]
        ELSE LET distance == Dist(dx, dy)
                 overlap == 2 * R - distance
             IN  IF distance > 0
                 THEN LET cx == TruncDiv(dx * overlap, 2 * distance)
                          cy == TruncDiv(dy * overlap, 2 * distance)
                          dvx == other.vx - self.vx
                          dvy == other.vy - self.vy
                          dot_product == TruncDiv(dvx * dx + dvy * dy, distance)
                          impulse == Impulse(dot_product, restitution)
                          ix == TruncDiv(impulse * dx, distance)
                          iy == TruncDiv(impulse * dy, distance)
                      IN  [self  |-> [x |-> self.x - cx, y |-> self.y - cy,
                                      vx |-> self.vx + ix, vy |-> self.vy + iy,
                                      moving |-> TRUE],
                           other |-> [x |-> other.x + cx, y |-> other.y + cy,
                                      vx |-> Recoil(other.vx, ix),
                                      vy |-> Recoil(other.vy, iy),
                                      moving |-> TRUE],
                           hit |-> TRUE]
                 ELSE [self |-> self, other |-> other, hit |-> TRUE]

\* Ball.collide_with
collide_with(self, other) == Collide(self, other, RESTITUTION_TENTHS)


(* ------------------- 64-bit non-negative arithmetic -------------------- *)
(* Heron's radicand exceeds the 32-bit integers of the model checker: it   *)
(* is held as six base-BASE digits, least significant first.               *)
BASE == 64 * 64

\* the three digits of 0 <= n < 2^31
Digits3(n) == <<n % BASE, (n \div BASE) % BASE, n \div (BASE * BASE)>>

\* digits of the number whose unnormalised digits are raw[i..], with carry c
Carry[raw \in Seq(Nat), i \in Nat, c \in Nat] ==
    IF i > Len(raw) THEN <<>>
    ELSE LET v == raw[i] + c
         IN  <<v % BASE>> \o Carry[raw, i + 1, v \div BASE]

\* x * m for a six-digit x and 0 <= m < 2^16
MulSmall(x, m) == Carry[[i \in 1..6 |-> x[i] * m], 1, 0]

\* n * n for 0 <= n < 2^31
Square(n) ==
    LET d == Digits3(n)
    IN  Carry[<<d[1] * d[1],
                2 * d[1] * d[2],
                2 * d[1] * d[3] + d[2] * d[2],
                2 * d[2] * d[3],
                d[3] * d[3],
                0>>, 1, 0]

\* x <= y on the digits 1..i
BigLeqFrom[x \in Seq(Nat), y \in Seq(Nat), i \in Nat] ==
    IF i = 0 THEN TRUE
    ELSE IF x[i] # y[i] THEN x[i] < y[i]
    ELSE BigLeqFrom[x, y, i - 1]

\* x <= y for six-digit numbers
BigLeq(x, y) == BigLeqFrom[x, y, 6]

\* the largest r in lo..hi with r * r <= q, by bisection
BigSqrtIter[q \in Seq(Nat), lo \in Nat, hi \in Nat] ==
    IF lo >= hi THEN lo
    ELSE LET mid == lo + (hi - lo + 1) \div 2
         IN  IF BigLeq(Square(mid), q) THEN BigSqrtIter[q, mid, hi]
                                       ELSE BigSqrtIter[q, lo, mid - 1]

\* math.sqrt of a six-digit number below 2^60, rounded downward
BigSqrt(q) == BigSqrtIter[q, 0, 1073741823]

(* ------------------------------ scoring -------------------------------- *)
(* Heron's formula on three points (units of 1/UNIT pixel); the area is in *)
(* square units.  With p = a + b + c = 2s, s > a is p > 2a and             *)
(* s(s-a)(s-b)(s-c) = p(p-2a)(p-2b)(p-2c) / 16.                            *)
HeronGuard(p, a, b, c) == p > 0 /\ p > 2 * a /\ p > 2 * b /\ p > 2 * c

\* math.sqrt(s * (s-a) * (s-b) * (s-c)), for sides that pass the guard,
\* rounded to the nearest integer
HeronRoot(p, a, b, c) ==
    (BigSqrt(MulSmall(MulSmall(MulSmall(
        <<p % BASE, p \div BASE, 0, 0, 0, 0>>,
        p - 2 * a), p - 2 * b), p - 2 * c)) + 2) \div 4

\* the value calculate_triangle_area returns and whether it records the
\* triangle, for the three points it reads
Heron(p1, p2, p3) ==
    LET a == Dist(p2[1] - p1[1], p2[2] - p1[2])
        b == Dist(p3[1] - p2[1], p3[2] - p2[2])
        c == Dist(p1[1] - p3[1], p1[2] - p3[2])
        p == a + b + c
    IN  IF HeronGuard(p, a, b, c)
        THEN [area |-> HeronRoot(p, a, b, c), formed |-> TRUE]
        ELSE [area |-> 0, formed |-> FALSE]

(* ------------------------------ inputs --------------------------------- *)
(* Pixel coordinates the environment may deliver.  reset_game draws the    *)
(* target with random.randint(2R, SCREEN_WIDTH - 2R) and                   *)
(* random.randint(2R, BOARD_HEIGHT - 2R); the pointer is anywhere in the   *)
(* 800 x 690 window.                                                       *)
\* a target in the middle and one in a corner of the range
Targets == {<<400, 300>>, <<30, 570>>}
\* a free place, a place on either target, a place below the board
Clicks == {<<130, 240>>, <<410, 300>>, <<40, 560>>, <<300, 650>>}
\* where the pointer is moved to
Moves == {<<130, 240>>, <<410, 300>>, <<300, 650>>}
\* a target and a place straight above it
LiveTargets == {<<323, 373>>}
LiveClicks == {<<323, 323>>}
Buttons == {LEFT_BUTTON, 3}

(* ------------------------------- state --------------------------------- *)
VARIABLES
    target_ball,        \* self.target_ball
    player_balls,       \* self.player_balls, a sequence of balls
    balls_left,         \* self.balls_left
    placing_ball,       \* self.placing_ball
    all_balls_stopped,  \* self.all_balls_stopped (cached flag)
    game_over,          \* self.game_over
    current_score,      \* self.current_score
    best_score,         \* self.best_score
    triangle,           \* self.triangle: <<>> for None, else <<p1, p2, p3>>
    temp_ball,          \* self.temp_ball: <<>> for None, else <<ball>>
    steps,              \* history: the calls update_balls made when it last ran
    scored              \* history: calculate_triangle_area calls of run, this round

vars == <<target_ball, player_balls, balls_left, placing_ball,
          all_balls_stopped, game_over, current_score, best_score,
          triangle, temp_ball, steps, scored>>

\* the bodies of the round
bodies == <<target_ball, player_balls>>

(* ------------------------ BilliardTriangleGame ------------------------- *)
\* fault: only the target is asked
AllStoppedOf_TargetOnly(t, ps) == ~t.moving
\* all_stopped() on a target and a sequence of player balls
AllStoppedOf(t, ps) ==
    /\ ~t.moving
    /\ \A i \in 1..Len(ps) : ~ps[i].moving

\* BilliardTriangleGame.all_stopped
all_stopped == AllStoppedOf(target_ball, player_balls)

\* one entry of the history of update_balls; body 0 is the target, body i
\* the i-th player ball
UpdateStep(i, pre, post) ==
    [op |-> "update", a |-> i, b |-> i, pre |-> <<pre>>, post |-> <<post>>]
CollideStep(i, j, pre1, pre2, r) ==
    [op |-> "collide", a |-> i, b |-> j, pre |-> <<pre1, pre2>>,
     post |-> <<r.self, r.other>>]

\* the values of a ball, of a history entry and of the bodies during
\* update_balls (t the target, p the player balls, log the calls so far)
BallT == [x : Int, y : Int, vx : Int, vy : Int, moving : BOOLEAN]
StepT == [op : {"update", "collide"}, a : Nat, b : Nat,
          pre : Seq(BallT), post : Seq(BallT)]
WorldT == [t : BallT, p : Seq(BallT), log : Seq(StepT)]

\* for other_ball in self.player_balls: if ball != other_ball:
\* ball.collide_with(other_ball), from the j-th other ball on
CollideOthers[w \in WorldT, i \in Nat, j \in Nat] ==
    IF j > Len(w.p) THEN w
    ELSE IF j = i THEN CollideOthers[w, i, j + 1]
    ELSE LET r == collide_with(w.p[i], w.p[j])
         IN  CollideOthers[
                 [t |-> w.t,
                  p |-> [w.p EXCEPT ![i] = r.self, ![j] = r.other],
                  log |-> Append(w.log, CollideStep(i, j, w.p[i], w.p[j], r))],
                 i, j + 1]

\* for ball in self.player_balls: update, collide with the target, then
\* with the other player balls, from the i-th ball on
BallLoop[w \in WorldT, i \in Nat] ==
    IF i > Len(w.p) THEN w
    ELSE LET u == update(w.p[i])
             r == collide_with(u, w.t)
         IN  BallLoop[
                 CollideOthers[
                     [t |-> r.other,
                      p |-> [w.p EXCEPT ![i] = r.self],
                      log |-> w.log \o <<UpdateStep(i, w.p[i], u),
                                         CollideStep(i, 0, u, w.t, r)>>],
                     i, 1],
                 i + 1]

\* BilliardTriangleGame.update_balls: the bodies after the call, and the
\* calls it made
update_balls ==
    LET u == update(target_ball)
    IN  BallLoop[[t |-> u, p |-> player_balls,
                  log |-> <<UpdateStep(0, target_ball, u)>>], 1]

\* BilliardTriangleGame.calculate_triangle_area on the given bodies: the
\* value returned and self.triangle after the call
calculate_triangle_area(t, ps, tri) ==
    IF Len(ps) < 2 THEN [area |-> 0, triangle |-> tri]
    ELSE LET p1 == <<t.x, t.y>>
             p2 == <<ps[1].x, ps[1].y>>
             p3 == <<ps[2].x, ps[2].y>>
             h == Heron(p1, p2, p3)
         IN  IF h.formed THEN [area |-> h.area, triangle |-> <<p1, p2, p3>>]
                         ELSE [area |-> 0, triangle |-> tri]

\* fault: reset_game leaves placing_ball as it is
reset_game_KeepPlacing(t) ==
    /\ target_ball' = Ball(t[1] * UNIT, t[2] * UNIT)
    /\ player_balls' = <<>>
    /\ balls_left' = BALLS_PER_ROUND
    /\ all_balls_stopped' = TRUE
    /\ game_over' = FALSE
    /\ current_score' = 0
    /\ triangle' = <<>>
    /\ temp_ball' = <<>>
    /\ steps' = <<>>
    /\ scored' = 0
    /\ UNCHANGED placing_ball
\* the state reset_game builds around a target at pixel t; best_score is
\* not assigned
reset_game(t) ==
    /\ target_ball' = Ball(t[1] * UNIT, t[2] * UNIT)
    /\ player_balls' = <<>>
    /\ balls_left' = BALLS_PER_ROUND
    /\ placing_ball' = FALSE
    /\ all_balls_stopped' = TRUE
    /\ game_over' = FALSE
    /\ current_score' = 0
    /\ triangle' = <<>>
    /\ temp_ball' = <<>>
    /\ steps' = <<>>
    /\ scored' = 0

\* fault: the place is compared with the target only
CanPlace_TargetOnly(x, y) ==
    ~Closer2R(x - target_ball.x, y - target_ball.y)
\* the overlap test of the pointer handlers: can_place for a ball at (x, y)
CanPlace(x, y) ==
    /\ ~Closer2R(x - target_ball.x, y - target_ball.y)
    /\ \A i \in 1..Len(player_balls) :
           ~Closer2R(x - player_balls[i].x, y - player_balls[i].y)

\* the phase test of the pointer handlers
Placing == all_stopped /\ balls_left > 0 /\ ~game_over

\* fault: a ball is placed while balls are moving or the round is over
PlacementAccepted_AnyPhase(button, pos) ==
    /\ button = LEFT_BUTTON
    /\ balls_left > 0
    /\ pos[2] <= BOARD_HEIGHT
    /\ CanPlace(pos[1] * UNIT, pos[2] * UNIT)
\* the conditions under which MOUSEBUTTONDOWN places a ball at pixel pos
PlacementAccepted(button, pos) ==
    /\ button = LEFT_BUTTON
    /\ Placing
    /\ pos[2] <= BOARD_HEIGHT
    /\ CanPlace(pos[1] * UNIT, pos[2] * UNIT)

\* fault: a placement does not use up a ball
BallsLeftAfterPlacement_Keep(n) == n
\* self.balls_left -= 1
BallsLeftAfterPlacement(n) == n - 1

\* event.type == KEYDOWN, event.key == K_r
KeyR(t) ==
    /\ reset_game(t)
    /\ UNCHANGED best_score

\* event.type == MOUSEBUTTONDOWN
MouseButtonDown(button, pos) ==
    IF PlacementAccepted(button, pos)
    THEN /\ placing_ball' = TRUE
         /\ player_balls' = Append(player_balls,
                                   Ball(pos[1] * UNIT, pos[2] * UNIT))
         /\ balls_left' = BallsLeftAfterPlacement(balls_left)
         /\ UNCHANGED <<target_ball, all_balls_stopped, game_over,
                        current_score, best_score, triangle, temp_ball,
                        steps, scored>>
    ELSE UNCHANGED vars

\* the guard of the MOUSEBUTTONUP handler
LaunchGuard(button) == button = LEFT_BUTTON /\ placing_ball

\* event.type == MOUSEBUTTONUP
MouseButtonUp(button) ==
    IF LaunchGuard(button)
    THEN /\ placing_ball' = FALSE
         /\ IF player_balls # <<>>
            THEN /\ player_balls' =
                        [player_balls EXCEPT ![Len(player_balls)] =
                            move_towards(@, target_ball.x, target_ball.y)]
                 /\ all_balls_stopped' = FALSE
            ELSE UNCHANGED <<player_balls, all_balls_stopped>>
         /\ UNCHANGED <<target_ball, balls_left, game_over, current_score,
                        best_score, triangle, temp_ball, steps, scored>>
    ELSE UNCHANGED vars

\* event.type == MOUSEMOTION
MouseMotion(pos) ==
    /\ IF pos[2] <= BOARD_HEIGHT /\ Placing
       THEN temp_ball' = IF CanPlace(pos[1] * UNIT, pos[2] * UNIT)
                         THEN <<Ball(pos[1] * UNIT, pos[2] * UNIT)>>
                         ELSE <<>>
       ELSE UNCHANGED temp_ball
    /\ UNCHANGED <<target_ball, player_balls, balls_left, placing_ball,
                   all_balls_stopped, game_over, current_score, best_score,
                   triangle, steps, scored>>

\* fault: the best score is overwritten by every score
NewBest_Overwrite(best, score) == score
\* if self.current_score > self.best_score: self.best_score = ...
NewBest(best, score) == IF score > best THEN score ELSE best

\* fault: the round ends whenever the balls stop
RoundEnds_AnyLeft(stopped, left) == stopped
\* the test that ends the round: if self.all_balls_stopped:
\* if self.balls_left == 0
RoundEnds(stopped, left) == stopped /\ left = 0

\* fault: the update runs in every frame
FrameUpdates_Always == TRUE
\* whether the frame runs update_balls: if not self.all_balls_stopped
FrameUpdates == ~all_balls_stopped

\* one pass of the main loop after its events: the update of the balls
\* (w, stopped and res name the values computed once in the pass)
Tick ==
    IF FrameUpdates
    THEN \E w \in {update_balls} :
         \E stopped \in {AllStoppedOf(w.t, w.p)} :
             /\ target_ball' = w.t
             /\ player_balls' = w.p
             /\ steps' = w.log
             /\ all_balls_stopped' = stopped
             /\ IF RoundEnds(stopped, balls_left)
                THEN \E res \in {calculate_triangle_area(w.t, w.p, triangle)} :
                         /\ current_score' = res.area
                         /\ triangle' = res.triangle
                         /\ best_score' = NewBest(best_score, res.area)
                         /\ game_over' = TRUE
                         /\ scored' = scored + 1
                ELSE UNCHANGED <<current_score, triangle, best_score,
                                 game_over, scored>>
             /\ UNCHANGED <<balls_left, placing_ball, temp_ball>>
    ELSE UNCHANGED vars

(* --------------------------- specifications ---------------------------- *)
\* BilliardTriangleGame.__init__: best_score = 0, then reset_game()
InitOn(T) ==
    /\ best_score = 0
    /\ \E t \in T :
        /\ target_ball = Ball(t[1] * UNIT, t[2] * UNIT)
        /\ player_balls = <<>>
        /\ balls_left = BALLS_PER_ROUND
        /\ placing_ball = FALSE
        /\ all_balls_stopped = TRUE
        /\ game_over = FALSE
        /\ current_score = 0
        /\ triangle = <<>>
        /\ temp_ball = <<>>
        /\ steps = <<>>
        /\ scored = 0

\* the events of one pass of the main loop, and its update
NextOn(T, C, M) ==
    \/ \E t \in T : KeyR(t)
    \/ \E button \in Buttons, pos \in C : MouseButtonDown(button, pos)
    \/ \E button \in Buttons : MouseButtonUp(button)
    \/ \E pos \in M : MouseMotion(pos)
    \/ Tick

Init == InitOn(Targets)
Next == NextOn(Targets, Clicks, Moves)
Spec == Init /\ [][Next]_vars

\* The main loop runs its update in every pass: a frame is never withheld
\* for ever.
InitLive == InitOn(LiveTargets)
NextLive == NextOn(LiveTargets, LiveClicks, LiveClicks)
SpecLive == InitLive /\ [][NextLive]_vars /\ WF_vars(Tick)

\* calculate_triangle_area on its own: the three balls lie at rest on any
\* three of these pixels (four on a diagonal, and the corners of a 3-4-5
\* triangle), and the method is called once, as the frame update calls it.
AreaPoints == {<<0, 0>>, <<1, 1>>, <<2, 2>>, <<12, 12>>, <<3, 0>>, <<0, 4>>}

InitArea ==
    /\ \E t \in AreaPoints, p \in AreaPoints, q \in AreaPoints :
        /\ target_ball = Ball(t[1] * UNIT, t[2] * UNIT)
        /\ player_balls = <<Ball(p[1] * UNIT, p[2] * UNIT),
                            Ball(q[1] * UNIT, q[2] * UNIT)>>
    /\ balls_left = 0
    /\ placing_ball = FALSE
    /\ all_balls_stopped = TRUE
    /\ game_over = FALSE
    /\ current_score = 0
    /\ best_score = 0
    /\ triangle = <<>>
    /\ temp_ball = <<>>
    /\ steps = <<>>
    /\ scored = 0

\* self.current_score = self.calculate_triangle_area()
AreaCall ==
    /\ scored = 0
    /\ \E res \in {calculate_triangle_area(target_ball, player_balls, triangle)} :
           /\ current_score' = res.area
           /\ triangle' = res.triangle
    /\ scored' = 1
    /\ UNCHANGED <<target_ball, player_balls, balls_left, placing_ball,
                   all_balls_stopped, game_over, best_score, temp_ball, steps>>

NextArea == AreaCall
SpecArea == InitArea /\ [][NextArea]_vars

(* ------------------------------- claims -------------------------------- *)
\* a step of the reset key
ResetStep == \E t \in Targets : KeyR(t)

\* the area of the triangle of the current positions of the three balls
AreaNow ==
    Heron(<<target_ball.x, target_ball.y>>,
          <<player_balls[1].x, player_balls[1].y>>,
          <<player_balls[2].x, player_balls[2].y>>).area

(* C1: the score is computed once per round, on the tick that ends the     *)
(* round (scored counts the computations of the round: 1 exactly when the  *)
(* round is over); from then until the reset no step changes the score,    *)
(* the best score, the triangle, game_over or any body.                    *)
C1_ScoredOnceThenFrozen ==
    [][/\ scored' = (IF game_over' THEN 1 ELSE 0)
       /\ (~game_over /\ game_over') => Tick
       /\ (game_over /\ ~ResetStep) =>
              UNCHANGED <<current_score, best_score, triangle, game_over,
                          target_ball, player_balls>>]_vars

\* a finished round with a positive score and a recorded triangle
C1_Witness == game_over /\ scored = 1 /\ current_score > 0 /\ triangle # <<>>

(* C2: best_score never decreases: the reset leaves it unchanged, and the  *)
(* tick that ends a round sets it to max(best_score, current_score).       *)
C2_BestNeverDecreases ==
    [][/\ best_score' >= best_score
       /\ ResetStep => best_score' = best_score
       /\ (~game_over /\ game_over') =>
              best_score' = (IF current_score' > best_score
                             THEN current_score' ELSE best_score)]_vars

\* a later round has ended with a score below the best
C2_Witness == game_over /\ current_score < best_score

(* C3: the player balls and the balls left add up to 2 in every state.     *)
C3_BallsAddUp == Len(player_balls) + balls_left = 2

\* between a placement and its launch
C3_Witness == placing_ball /\ Len(player_balls) = 1 /\ ~player_balls[1].moving

\* the claim's conditions for rejecting a pointer-down at pixel pos
C4_MustReject(pos) ==
    \/ target_ball.moving
    \/ \E i \in 1..Len(player_balls) : player_balls[i].moving
    \/ balls_left = 0
    \/ game_over
    \/ pos[2] > BOARD_HEIGHT
    \/ Closer2R(pos[1] * UNIT - target_ball.x, pos[2] * UNIT - target_ball.y)
    \/ \E i \in 1..Len(player_balls) :
           Closer2R(pos[1] * UNIT - player_balls[i].x,
                    pos[2] * UNIT - player_balls[i].y)

(* C4: a pointer-down that is not in the Placing phase, or below the       *)
(* board, or closer than 2 * BALL_RADIUS to a ball, changes no round state. *)
C4_RejectedPlacementChangesNothing ==
    [][\A pos \in Clicks :
           (MouseButtonDown(LEFT_BUTTON, pos) /\ C4_MustReject(pos)) =>
               UNCHANGED <<player_balls, balls_left, placing_ball,
                           target_ball, current_score, best_score,
                           game_over>>]_vars

\* balls are moving while a ball is left and a free place on the board is
\* offered: the phase alone rejects the placement
C4_Witness ==
    /\ ~all_stopped /\ balls_left > 0 /\ ~game_over
    /\ \E pos \in Clicks :
           pos[2] <= BOARD_HEIGHT /\ CanPlace(pos[1] * UNIT, pos[2] * UNIT)

(* C5: when the round is over no ball is left, there are two player balls, *)
(* every ball is at rest and the score is the area of the triangle of the  *)
(* balls' current positions.                                               *)
C5_FinishedState ==
    game_over =>
        /\ balls_left = 0
        /\ Len(player_balls) = 2
        /\ ~target_ball.moving
        /\ ~player_balls[1].moving
        /\ ~player_balls[2].moving
        /\ current_score = AreaNow

\* a finished round whose balls were knocked away from where they were put
C5_Witness ==
    /\ game_over /\ current_score > 0
    /\ \A t \in Targets : target_ball # Ball(t[1] * UNIT, t[2] * UNIT)

\* a ball at rest that lies inside the board
C6_AtRestInside(b) ==
    /\ ~b.moving /\ b.vx = 0 /\ b.vy = 0
    /\ b.x - R >= 0 /\ b.x + R <= W
    /\ b.y - R >= 0 /\ b.y + R <= H

(* C6: the reset yields the initial Placing state in every state it is     *)
(* issued in, leaves best_score unchanged, and a pointer-up in the state   *)
(* it yields launches nothing.                                             *)
C6_ResetYieldsInitialState ==
    [][/\ ResetStep =>
              /\ player_balls' = <<>>
              /\ balls_left' = 2
              /\ ~placing_ball'
              /\ ~game_over'
              /\ current_score' = 0
              /\ triangle' = <<>>
              /\ C6_AtRestInside(target_ball')
              /\ best_score' = best_score
       /\ \A button \in Buttons :
              (player_balls = <<>> /\ ~placing_ball /\ MouseButtonUp(button))
                  => UNCHANGED vars]_vars

\* a fresh round after a finished one: the reset acted on a Finished state
C6_Witness ==
    /\ player_balls = <<>> /\ balls_left = 2 /\ ~game_over
    /\ best_score > 0 /\ current_score = 0

(* C7: settling terminates: whenever a ball is moving, the balls are all   *)
(* at rest at some later time.                                             *)
C7_SettlingTerminates == (~all_stopped) ~> all_stopped

\* the bodies update_balls integrated when it last ran
StepBodies == {steps[k].a : k \in {n \in 1..Len(steps) : steps[n].op = "update"}}

\* the calls of collide_with on the pair {i, j} when update_balls last ran
PairCalls(i, j) ==
    {k \in 1..Len(steps) :
        /\ steps[k].op = "collide"
        /\ {steps[k].a, steps[k].b} = {i, j}}

(* C8: update_balls resolves every pair of distinct bodies exactly once.   *)
C8_EachPairOnce ==
    \A i \in StepBodies, j \in StepBodies :
        i < j => Cardinality(PairCalls(i, j)) = 1

\* the collide_with calls of the last update_balls
CollideCalls == {k \in 1..Len(steps) : steps[k].op = "collide"}

\* n scaled by the centre distance of the pair before the call
NormalPart(v, e) ==
    LET dx == e.pre[2].x - e.pre[1].x
        dy == e.pre[2].y - e.pre[1].y
    IN  TruncDiv(v.vx * dx + v.vy * dy, Dist(dx, dy))

\* the sum of the squared normal velocity components of a pair
NormalEnergy(pair, e) ==
    NormalPart(pair[1], e) * NormalPart(pair[1], e)
      + NormalPart(pair[2], e) * NormalPart(pair[2], e)

\* the call resolved an overlap of two distinct centres with a normal
\* component of the relative velocity
C9_Case(e) ==
    LET dx == e.pre[2].x - e.pre[1].x
        dy == e.pre[2].y - e.pre[1].y
    IN  /\ Closer2R(dx, dy)
        /\ Dist(dx, dy) > 0
        /\ (e.pre[2].vx - e.pre[1].vx) * dx + (e.pre[2].vy - e.pre[1].vy) * dy # 0

(* C9: a collision with a normal component of relative velocity strictly  *)
(* decreases the pair's kinetic energy along the normal.                   *)
C9_NormalEnergyDecreases ==
    \A k \in CollideCalls :
        C9_Case(steps[k]) =>
            NormalEnergy(steps[k].post, steps[k]) < NormalEnergy(steps[k].pre, steps[k])

\* the summed velocity of a pair
Momentum(pair) == <<pair[1].vx + pair[2].vx, pair[1].vy + pair[2].vy>>

\* the pair with the second ball moved onto the centre of the first
Coincident(pair) ==
    <<pair[1], [pair[2] EXCEPT !.x = pair[1].x, !.y = pair[1].y]>>

\* the pair after Ball.collide_with at the given restitution
Collided(pair, restitution) ==
    LET r == Collide(pair[1], pair[2], restitution)
    IN  <<r.self, r.other>>

(* C10: collide_with leaves the summed velocity of its two balls unchanged *)
(* at the configured restitution and at restitution 1, whether the balls   *)
(* overlap, do not touch or have the same centre: on every pair that       *)
(* update_balls handed to collide_with, and on that pair made coincident.  *)
C10_MomentumConserved ==
    \A k \in CollideCalls :
        LET e == steps[k]
        IN  /\ Momentum(e.post) = Momentum(e.pre)
            /\ \A pair \in {e.pre, Coincident(e.pre)} :
                   \A restitution \in {RESTITUTION_TENTHS, 10} :
                       Momentum(Collided(pair, restitution)) = Momentum(pair)

\* a collision changed the velocities of both balls
C10_Witness ==
    \E k \in CollideCalls :
        /\ steps[k].post[1].vx # steps[k].pre[1].vx
        /\ steps[k].post[2].vx # steps[k].pre[2].vx
        /\ steps[k].post[1].vy # steps[k].pre[1].vy

\* the three points calculate_triangle_area reads
AreaInputs ==
    <<<<target_ball.x, target_ball.y>>,
      <<player_balls[1].x, player_balls[1].y>>,
      <<player_balls[2].x, player_balls[2].y>>>>

\* the three points lie on one line or coincide: the cross product of two
\* edges is zero
Collinear(pts) ==
    (pts[2][1] - pts[1][1]) * (pts[3][2] - pts[1][2])
        = (pts[2][2] - pts[1][2]) * (pts[3][1] - pts[1][1])

\* the side lengths the method computes, and their sum 2s
AreaSides ==
    LET pts == AreaInputs
        a == Dist(pts[2][1] - pts[1][1], pts[2][2] - pts[1][2])
        b == Dist(pts[3][1] - pts[2][1], pts[3][2] - pts[2][2])
        c == Dist(pts[1][1] - pts[3][1], pts[1][2] - pts[3][2])
    IN  [a |-> a, b |-> b, c |-> c, p |-> a + b + c]

(* C11: the value calculate_triangle_area returned is Heron's value when   *)
(* s > 0, s > a, s > b and s > c and 0 otherwise, every factor under the   *)
(* root is positive, the value is never negative, it is 0 for three points *)
(* on a line, and 6 square pixels for (0,0), (3,0), (0,4).                 *)
C11_AreaOfTriangle ==
    scored = 1 =>
        LET d == AreaSides
            guard == d.p > 0 /\ d.p > 2 * d.a /\ d.p > 2 * d.b /\ d.p > 2 * d.c
        IN  /\ current_score >= 0
            /\ current_score = (IF guard THEN HeronRoot(d.p, d.a, d.b, d.c) ELSE 0)
            /\ guard => d.p - 2 * d.a > 0 /\ d.p - 2 * d.b > 0 /\ d.p - 2 * d.c > 0
            /\ Collinear(AreaInputs) => current_score = 0
            /\ AreaInputs = <<<<0, 0>>, <<3 * UNIT, 0>>, <<0, 4 * UNIT>>>>
                   => current_score = 6 * UNIT * UNIT

\* the preview ball is present at pixel pos
PreviewAt(pos) == temp_ball = <<Ball(pos[1] * UNIT, pos[2] * UNIT)>>

(* C12: the preview agrees with placement: where the preview ball is, a    *)
(* pointer-down would place a ball, and a pointer-down places a ball only  *)
(* where the preview ball is.                                              *)
C12_PreviewAgreesWithPlacement ==
    [][/\ \A pos \in Moves :
              PreviewAt(pos) => PlacementAccepted(LEFT_BUTTON, pos)
       /\ \A pos \in Clicks :
              (PlacementAccepted(LEFT_BUTTON, pos)
                   /\ MouseButtonDown(LEFT_BUTTON, pos)) => PreviewAt(pos)]_vars

\* in the calls of the last update_balls, every Ball.update comes before
\* every collide_with
IntegratedBeforeCollisions(log) ==
    \A k \in 1..Len(log), l \in 1..Len(log) :
        (log[k].op = "update" /\ log[l].op = "collide") => k < l

(* C13: in a tick every body is integrated before any pair collision is    *)
(* resolved, and the cached all-at-rest flag is evaluated on the bodies as *)
(* the last collision of the tick left them.                               *)
C13_IntegrateThenCollide ==
    [][(FrameUpdates /\ Tick) =>
           /\ IntegratedBeforeCollisions(steps')
           /\ all_balls_stopped' = all_stopped']_vars

\* body i of the bodies (t, ps): body 0 is the target
BodyOf(t, ps, i) == IF i = 0 THEN t ELSE ps[i]

\* the Ball.update calls of a log
Updates(log) == {k \in 1..Len(log) : log[k].op = "update"}

\* the speed of b is below MIN_VELOCITY
Slow(b) ==
    MIN_VELOCITY_INV * MIN_VELOCITY_INV * (b.vx * b.vx + b.vy * b.vy)
        < UNIT * UNIT

\* entry l of the log is a collide_with call on body i that found the two
\* centres closer than 2 * BALL_RADIUS and apart
Hit(log, l, i) ==
    /\ log[l].op = "collide"
    /\ i \in {log[l].a, log[l].b}
    /\ Closer2R(log[l].pre[2].x - log[l].pre[1].x,
                log[l].pre[2].y - log[l].pre[1].y)
    /\ <<log[l].pre[1].x, log[l].pre[1].y>> # <<log[l].pre[2].x, log[l].pre[2].y>>

(* C14 as claimed: after a tick a body is not moving if and only if its    *)
(* Ball.update of the tick ended with its speed below MIN_VELOCITY or left *)
(* it at rest as it found it.                                              *)
C14_MovingIffAboveThreshold ==
    [][(FrameUpdates /\ Tick) =>
           \A k \in Updates(steps') :
               (~BodyOf(target_ball', player_balls', steps'[k].a).moving)
                   <=> Slow(steps'[k].post[1])]_vars

(* C14 as amended: after a tick a body is not moving if and only if its    *)
(* Ball.update of the tick ended with its speed below MIN_VELOCITY (or     *)
(* left it at rest) and no later collision of the tick marked it moving;   *)
(* outside the ticks only the launch changes a flag of a ball that stays,  *)
(* and a ball enters the round at rest.                                    *)
C14_MovingFlag ==
    [][/\ (vars' # vars /\ FrameUpdates /\ Tick) =>
              \A k \in Updates(steps') :
                  (~BodyOf(target_ball', player_balls', steps'[k].a).moving)
                      <=> /\ Slow(steps'[k].post[1])
                          /\ \A l \in (k + 1)..Len(steps') :
                                 ~Hit(steps', l, steps'[k].a)
       /\ \/ /\ ~target_ball'.moving \/ target_ball' = target_ball
             /\ \A i \in 1..Len(player_balls') :
                    \/ ~player_balls'[i].moving
                    \/ i <= Len(player_balls) /\ player_balls'[i] = player_balls[i]
                    \/ /\ i = Len(player_balls)
                       /\ \E button \in Buttons : MouseButtonUp(button)
          \/ Tick]_vars

\* the last tick found the target at rest and a collision set it moving
C14_Witness ==
    /\ steps # <<>>
    /\ ~steps[1].pre[1].moving
    /\ target_ball.moving
    /\ \E l \in 1..Len(steps) : Hit(steps, l, 0)

\* the target and the player balls
AllBodies == {target_ball} \cup {player_balls[i] : i \in 1..Len(player_balls)}

(* C15: every Ball.update of the last tick left its ball with speed 0 or   *)
(* at least MIN_VELOCITY, moving only with at least MIN_VELOCITY and at    *)
(* rest only with velocity (0, 0); and in every state a body that is not   *)
(* moving has velocity (0, 0).                                             *)
C15_SpeedZeroOrAboveThreshold ==
    /\ \A k \in Updates(steps) :
           LET b == steps[k].post[1]
           IN  /\ (b.vx = 0 /\ b.vy = 0) \/ ~Slow(b)
               /\ b.moving => ~Slow(b)
               /\ ~b.moving => (b.vx = 0 /\ b.vy = 0)
    /\ \A b \in AllBodies : ~b.moving => (b.vx = 0 /\ b.vy = 0)

\* an update of the last tick stopped a ball that a collision had left
\* moving with a speed below MIN_VELOCITY
C15_Witness ==
    \E k \in Updates(steps) :
        /\ steps[k].pre[1].moving
        /\ Slow(steps[k].pre[1])
        /\ ~steps[k].post[1].moving

\* the player balls that have been placed and not launched, in a round
\* that has not had a tick: no collision can have set them moving
Unlaunched == {i \in 1..Len(player_balls) : ~player_balls[i].moving}

(* C16: a placement is accepted only when the ball placed before it has    *)
(* been launched (placing_ball is true from a placement to its pointer-up), *)
(* and before the first tick of a round at most one player ball is placed  *)
(* and not launched.                                                       *)
C16_LaunchedBeforeNextPlacement ==
    [][/\ Len(player_balls') > Len(player_balls) => ~placing_ball
       /\ steps' = <<>> => Cardinality(Unlaunched') <= 1]_vars

(* C17: in every state (after every event and every tick) the cached flag  *)
(* all_balls_stopped is true if and only if neither the target nor any     *)
(* player ball is moving.                                                  *)
C17_CachedFlagAgrees ==
    all_balls_stopped <=> (\A b \in AllBodies : ~b.moving)

\* a pointer-up has launched a ball and no tick has run since the round
\* began: the flag is false and the launched ball is moving
C17_Witness ==
    /\ ~all_balls_stopped
    /\ steps = <<>>
    /\ player_balls # <<>>
    /\ player_balls[Len(player_balls)].moving

\* the bodies of the round in order: the target, then the player balls
BodySeq == <<target_ball>> \o player_balls

\* the squared centre distance of bodies i and j of BodySeq is at least
\* (2 * BALL_RADIUS)^2
Apart(i, j) ==
    LET dx == BodySeq[j].x - BodySeq[i].x
        dy == BodySeq[j].y - BodySeq[i].y
    IN  \/ Abs(dx) >= 2 * R
        \/ Abs(dy) >= 2 * R
        \/ dx * dx + dy * dy >= (2 * R) * (2 * R)

(* C18: whenever all bodies are at rest (at the start of a round, after an *)
(* accepted placement, after a tick that ends at rest) every two distinct  *)
(* bodies have centres at least 2 * BALL_RADIUS apart.                     *)
C18_RestingBodiesApart ==
    (\A b \in AllBodies : ~b.moving) =>
        \A i \in 1..Len(BodySeq), j \in 1..Len(BodySeq) : i < j => Apart(i, j)

\* a tick has ended with all bodies at rest and two of them almost in
\* touch: their centres are less than 3 * BALL_RADIUS apart
C18_Witness ==
    /\ steps # <<>>
    /\ \A b \in AllBodies : ~b.moving
    /\ \E i \in 1..Len(BodySeq), j \in 1..Len(BodySeq) :
           /\ i < j
           /\ Abs(BodySeq[j].x - BodySeq[i].x) < 3 * R
           /\ Abs(BodySeq[j].y - BodySeq[i].y) < 3 * R
           /\ (BodySeq[j].x - BodySeq[i].x) * (BodySeq[j].x - BodySeq[i].x)
                + (BodySeq[j].y - BodySeq[i].y) * (BodySeq[j].y - BodySeq[i].y)
                < (3 * R) * (3 * R)

=============================================================================
